---- MODULE Spec2Model ----
(***************************************************************************)
(* A model of the tourism simulation core: ScenarioAwareHotspot,           *)
(* ScenarioAwareTourist and ScenarioAwareTourismModel.step.                *)
(*                                                                         *)
(* Real numbers are fixed-point integers in units of 1/SCALE (0.5 is 500). *)
(* Products of two scaled values are rescaled with Mul; quotients are      *)
(* floored.  effective_capacity is kept in the same unit (a capacity of 2  *)
(* visitors is 2000), because base_capacity * capacity_multiplier is a     *)
(* float in the source; base_capacity, capacity and the visitor counters   *)
(* are plain integers.                                                     *)
(*                                                                         *)
(* Specifications:                                                         *)
(*   Spec             one model, constructed and run for MaxSteps ticks    *)
(*   SpecSetScenario  the same with set_scenario calls between the ticks   *)
(*   SpecTwoRuns      a run, then a second model built from the same       *)
(*                    inputs and seed and run with the same draws          *)
(*   SpecHotspot      one Hotspot driven through its own methods           *)
(***************************************************************************)
EXTENDS Integers, Sequences, FiniteSets, TLC

SCALE == 10 * 100

\* ---------------------------------------------------------------- bounds
\* Number of ticks (calls of model.step) a run makes.
MaxSteps == 3
\* Visits recorded at a hotspot between two of its steps, and social boosts
\* it is given, when the hotspot is driven on its own.
MaxVisits == 15
MaxShares == 2

\* ------------------------------------------------------ program constants
DecayRate == 20
CapacityPenalty == 500
ViralThreshold == 800
ViralFactor == 100
DefaultAppeal == 300
PopularityWeight == 300
DistanceWeight == 50
ExplorationBonus == 200
SocialBoostFactor == 100
RecommendThreshold == 600
NeighborRadius == 3
InitialSatisfaction == 500
TaxToAppeal == 500
MinAccessibility == 100

\* ---------------------------------------------------------------- helpers
Min(a, b) == IF a < b THEN a ELSE b
Max(a, b) == IF a > b THEN a ELSE b
Mul(a, b) == (a * b) \div SCALE
Abs(a) == IF a < 0 THEN -a ELSE a

\* dict.get(key, default)
Get(d, key, default) == IF key \in DOMAIN d THEN d[key] ELSE default

RECURSIVE SumSeq(_)
SumSeq(s) == IF s = <<>> THEN 0 ELSE Head(s) + SumSeq(Tail(s))

RECURSIVE Count(_, _)
Count(s, x) == IF s = <<>> THEN 0
               ELSE (IF Head(s) = x THEN 1 ELSE 0) + Count(Tail(s), x)

InSeq(x, s) == \E i \in 1..Len(s) : s[i] = x

\* ------------------------------------------------------------------ data
\* Persona records (the fields Tourist.__init__ reads).
PersonaTypes == {"budget", "luxury"}

PersonasData ==
    [budget |-> [type |-> "budget", social_influence |-> 500,
                 recommendation_trust |-> 500, exploration_tendency |-> 0,
                 daily_visits |-> 2, sharing_probability |-> 1000,
                 influence_on_similar |-> 500, influence_on_different |-> 300],
     luxury |-> [type |-> "luxury", social_influence |-> 1000,
                 recommendation_trust |-> 800, exploration_tendency |-> 500,
                 daily_visits |-> 2, sharing_probability |-> 500,
                 influence_on_similar |-> 600, influence_on_different |-> 200]]

\* Agents are registered hotspots first, then tourists; unique_id counts from 1.
HotspotIds == {1, 2}
TouristIds == {3, 4}
\* Faulty variant of AgentOrder: the tourists step before the hotspots.
AgentOrder_TouristsFirst == <<3, 4, 1, 2>>

AgentOrder == <<1, 2, 3, 4>>

\* The <<base_capacity, initial_popularity>> the first hotspot is created with.
FirstHotspotSetups ==
    {<<0, 500>>, <<1, 500>>, <<3, 500>>, <<3, 950>>, <<100, 500>>}

\* Cells a tourist may be placed on at creation.
TouristCells == {<<0, 0>>, <<19, 19>>}

\* appeal_to_personas as loaded: plain numbers, or {appeal_score: ...} records.
PlainEntry(v) == [is_dict |-> FALSE, score |-> v]
DictEntry == [is_dict |-> TRUE, score |-> 0]

HotspotsData(setup1, as_dict) ==
    [h \in HotspotIds |->
       IF h = 1
       THEN [name |-> "H1", category |-> "shopping", pos |-> <<0, 0>>,
             initial_popularity |-> setup1[2], base_capacity |-> setup1[1],
             is_dict |-> as_dict,
             appeal_scores |-> [budget |-> 800, luxury |-> 900]]
       ELSE [name |-> "H2", category |-> "park", pos |-> <<2, 0>>,
             initial_popularity |-> 0, base_capacity |-> 1,
             is_dict |-> as_dict,
             appeal_scores |-> [budget |-> 0]]]

\* -------------------------------------------------------------- scenarios
EmptyMap == [k \in {} |-> 0]

\* TourismScenario.add_event: the event dictionary (description and reasoning
\* are free text and left out).
Event(step, type, target, parameters) ==
    [step |-> step, type |-> type, target |-> target, parameters |-> parameters]

\* scenario=None
NoScenario == [name |-> "None", events |-> <<>>, regulations |-> EmptyMap,
               external_factors |-> EmptyMap]

EmptyScenario == [name |-> "empty", events |-> <<>>, regulations |-> EmptyMap,
                  external_factors |-> EmptyMap]

FestivalScenario ==
    [name |-> "festival",
     events |-> <<
        Event(0, "capacity_boost", "H1", [capacity_multiplier |-> 2000]),
        Event(0, "appeal_boost", "H1",
              [appeal_boost |-> 150,
               target_personas |-> <<"budget", "luxury", "family">>]),
        Event(1, "appeal_boost", "H1",
              [appeal_boost |-> 100, target_personas |-> <<"budget">>]),
        Event(1, "appeal_boost", "H1", [appeal_boost |-> 600]),
        Event(1, "capacity_boost", "H1", [capacity_multiplier |-> 500]),
        Event(2, "appeal_reset", "H1", EmptyMap),
        Event(2, "capacity_reset", "H1", EmptyMap) >>,
     regulations |-> EmptyMap,
     external_factors |-> [event_excitement |-> 100, social_media_buzz |-> 400]]

TaxScenario ==
    [name |-> "tax",
     events |-> <<
        Event(0, "capacity_boost", "H2", [capacity_multiplier |-> 3000]),
        Event(1, "capacity_reset", "H2", EmptyMap) >>,
     regulations |->
        [luxury_tax |-> [tax_rate |-> 400, affected_categories |-> {"shopping"}],
         capacity_limit |-> [target |-> "H2", new_capacity |-> 2]],
     external_factors |-> [cost_sensitivity |-> 400]]

ConstructionScenario ==
    [name |-> "construction",
     events |-> <<
        Event(0, "accessibility_reduction", "H2", [accessibility_penalty |-> 300]),
        Event(0, "noise_pollution", "H1", [satisfaction_penalty |-> 300]),
        Event(0, "appeal_boost", "all", [appeal_boost |-> -400]),
        Event(1, "appeal_reduction", "H1", [reduction |-> 500]),
        Event(1, "appeal_reduction", "H1", [reduction |-> 400]),
        Event(1, "satisfaction_penalty", "budget", [penalty |-> 200]),
        Event(2, "construction_complete", "H2", [accessibility_bonus |-> 1000]) >>,
     regulations |-> EmptyMap,
     external_factors |-> [inconvenience_tolerance |-> -400,
                           noise_tolerance |-> -300]]

DuplicateScenario ==
    [name |-> "duplicates",
     events |-> <<
        Event(0, "appeal_boost", "H1",
              [appeal_boost |-> 100, target_personas |-> <<"budget">>]),
        Event(0, "appeal_boost", "H1",
              [appeal_boost |-> 100, target_personas |-> <<"budget">>]),
        Event(0, "appeal_boost", "H1",
              [appeal_boost |-> 200, target_personas |-> <<"luxury">>]),
        Event(0, "appeal_boost", "luxury", [boost |-> 500]),
        Event(1, "capacity_boost", "Nowhere", [capacity_multiplier |-> 3000]),
        Event(1, "capacity_boost", "H2", [capacity_multiplier |-> 1500]),
        Event(1, "appeal_boost", "H2", [appeal_boost |-> 200]),
        Event(1, "appeal_reduction", "H1", [reduction |-> 300]),
        Event(2, "appeal_boost", "H2",
              [appeal_boost |-> -400, target_personas |-> <<"budget">>]),
        Event(2, "appeal_reset", "H1", EmptyMap) >>,
     regulations |->
        [luxury_tax |-> [tax_rate |-> 200, affected_categories |-> {"shopping"}]],
     external_factors |-> EmptyMap]

Scenarios == {NoScenario, EmptyScenario, FestivalScenario, TaxScenario,
              ConstructionScenario, DuplicateScenario}

\* `if not scenario` / `if self.current_scenario`
IsScenario(scenario) == scenario.name # "None"

\* --------------------------------------------------------------- Hotspot
\* Hotspot.__init__ and ScenarioAwareHotspot.__init__.  appeal_dicts holds the
\* appeal_score of each {appeal_score: ...} object of the loaded table: the
\* table and its shallow copy base_appeal_to_personas refer to the same objects.
\* appeal_to_personas is the caller's dictionary itself, not a copy of it:
\* data_appeal is what that dictionary of hotspot_data holds, and table_is_data
\* tells whether self.appeal_to_personas still is that dictionary.
NewHotspot(data) ==
    LET table == [p \in DOMAIN data.appeal_scores |->
                    IF data.is_dict THEN DictEntry
                    ELSE PlainEntry(data.appeal_scores[p])]
    IN [name |-> data.name,
        category |-> data.category,
        pos |-> data.pos,
        initial_popularity |-> data.initial_popularity,
        current_popularity |-> data.initial_popularity,
        base_capacity |-> data.base_capacity,
        capacity |-> data.base_capacity,
        appeal_to_personas |-> table,
        appeal_dicts |-> data.appeal_scores,
        data_appeal |-> table,
        table_is_data |-> TRUE,
        visitors_today |-> 0,
        total_visitors |-> 0,
        social_shares |-> 0,
        base_appeal_to_personas |-> table,
        effective_capacity |-> data.base_capacity * SCALE,
        accessibility_modifier |-> SCALE,
        scenario_satisfaction_modifiers |-> EmptyMap,
        active_events |-> <<>>,
        processed_events |-> <<>>]

\* The appeal_score an entry of a table holds.
EntryScore(hs, table, persona) ==
    IF table[persona].is_dict THEN hs.appeal_dicts[persona]
    ELSE table[persona].score

get_persona_appeal(hs, persona_type) ==
    IF persona_type \in DOMAIN hs.appeal_to_personas
    THEN EntryScore(hs, hs.appeal_to_personas, persona_type)
    ELSE DefaultAppeal

\* Hotspot.get_capacity_factor (the base class, on self.capacity).
base_get_capacity_factor(hs) ==
    IF hs.visitors_today = 0 THEN SCALE
    ELSE Min(SCALE, (hs.capacity * SCALE) \div Max(1, hs.visitors_today))

\* Faulty variant of get_capacity_factor: the ratio is not capped.
get_capacity_factor_Uncapped(hs) ==
    IF hs.visitors_today = 0 THEN SCALE
    ELSE hs.effective_capacity \div Max(1, hs.visitors_today)

\* ScenarioAwareHotspot.get_capacity_factor (on effective_capacity).
get_capacity_factor(hs) ==
    IF hs.visitors_today = 0 THEN SCALE
    ELSE Min(SCALE, hs.effective_capacity \div Max(1, hs.visitors_today))

record_visit(hs) ==
    [hs EXCEPT !.visitors_today = @ + 1, !.total_visitors = @ + 1]

\* Faulty variant of add_social_boost: the popularity is not capped.
add_social_boost_Uncapped(hs, boost) ==
    [hs EXCEPT !.current_popularity = @ + boost, !.social_shares = @ + 1]

add_social_boost(hs, boost) ==
    [hs EXCEPT !.current_popularity = Min(SCALE, @ + boost),
               !.social_shares = @ + 1]

\* Faulty variant of update_popularity: the overcrowding penalty is taken
\* before the decay.
update_popularity_PenaltyFirst(hs) ==
    LET crowded == hs.visitors_today > hs.capacity
    IN IF crowded /\ hs.capacity = 0
       THEN [hs |-> hs, raised |-> TRUE]
       ELSE LET overcrowding_penalty ==
                    Mul(((hs.visitors_today - hs.capacity) * SCALE) \div hs.capacity,
                        CapacityPenalty)
                penalised == IF crowded
                             THEN Max(0, hs.current_popularity - overcrowding_penalty)
                             ELSE hs.current_popularity
                decayed == Mul(penalised, SCALE - DecayRate)
                viral_boost == Mul(decayed - ViralThreshold, ViralFactor)
                final == IF decayed > ViralThreshold
                         THEN Min(SCALE, decayed + viral_boost)
                         ELSE decayed
            IN [hs |-> [hs EXCEPT !.current_popularity = final], raised |-> FALSE]

\* Hotspot.update_popularity.  The result is the hotspot and whether the
\* division by self.capacity raised ZeroDivisionError (the decay has been
\* applied by then).
update_popularity(hs) ==
    LET decayed == Mul(hs.current_popularity, SCALE - DecayRate)
        crowded == hs.visitors_today > hs.capacity
    IN IF crowded /\ hs.capacity = 0
       THEN [hs |-> [hs EXCEPT !.current_popularity = decayed], raised |-> TRUE]
       ELSE LET overcrowding_penalty ==
                    Mul(((hs.visitors_today - hs.capacity) * SCALE) \div hs.capacity,
                        CapacityPenalty)
                penalised == IF crowded THEN Max(0, decayed - overcrowding_penalty)
                             ELSE decayed
                viral_boost == Mul(penalised - ViralThreshold, ViralFactor)
                final == IF penalised > ViralThreshold
                         THEN Min(SCALE, penalised + viral_boost)
                         ELSE penalised
            IN [hs |-> [hs EXCEPT !.current_popularity = final], raised |-> FALSE]

\* Faulty variant of reset_daily_counters: visitors_today is carried over.
reset_daily_counters_KeepsToday(hs) ==
    [hs EXCEPT !.total_visitors = @ + hs.visitors_today]

reset_daily_counters(hs) ==
    [hs EXCEPT !.total_visitors = @ + hs.visitors_today, !.visitors_today = 0]

\* Hotspot.step: update_popularity, then reset_daily_counters unless it raised.
hotspot_step(hs) ==
    LET upd == update_popularity(hs)
    IN IF upd.raised THEN upd
       ELSE [hs |-> reset_daily_counters(upd.hs), raised |-> FALSE]

\* ------------------------------------------------- ScenarioAwareHotspot
\* Store a new appeal score for a persona: into the {appeal_score: ...} object
\* when the entry is one, into the table otherwise.
SetAppeal(hs, persona, new_appeal) ==
    IF hs.appeal_to_personas[persona].is_dict
    THEN [hs EXCEPT !.appeal_dicts[persona] = new_appeal]
    ELSE [hs EXCEPT !.appeal_to_personas[persona] = PlainEntry(new_appeal),
                    !.data_appeal[persona] =
                        IF hs.table_is_data THEN PlainEntry(new_appeal) ELSE @]

\* The appeal_boost loop over target_personas, in list order.
RECURSIVE BoostPersonas(_, _, _)
BoostPersonas(hs, target_personas, boost) ==
    IF target_personas = <<>> THEN hs
    ELSE LET persona == Head(target_personas)
             boosted == IF persona \in DOMAIN hs.appeal_to_personas
                        THEN SetAppeal(hs, persona,
                                 Min(SCALE, get_persona_appeal(hs, persona) + boost))
                        ELSE hs
         IN BoostPersonas(boosted, Tail(target_personas), boost)

\* The appeal_reduction loop over every persona of the table.
RECURSIVE ReducePersonas(_, _, _)
ReducePersonas(hs, personas, reduction) ==
    IF personas = {} THEN hs
    ELSE LET persona == CHOOSE p \in personas : TRUE
         IN ReducePersonas(
                SetAppeal(hs, persona,
                          Max(0, get_persona_appeal(hs, persona) - reduction)),
                personas \ {persona}, reduction)

\* Faulty variant of BoostedCapacity: the multiplier is applied to the
\* capacity in effect.
BoostedCapacity_Compounding(hs, params) ==
    Mul(hs.effective_capacity, Get(params, "capacity_multiplier", SCALE))

\* The effective_capacity a capacity_boost event sets.
BoostedCapacity(hs, params) ==
    hs.base_capacity * Get(params, "capacity_multiplier", SCALE)

\* ScenarioAwareHotspot.process_event
process_event(hs, event) ==
    LET params == event.parameters
        logged == [hs EXCEPT !.active_events = Append(@, event.type)]
    IN CASE event.type = "capacity_boost" ->
              [logged EXCEPT !.effective_capacity = BoostedCapacity(hs, params)]
         [] event.type = "capacity_reset" ->
              [logged EXCEPT !.effective_capacity = hs.base_capacity * SCALE]
         [] event.type = "appeal_boost" ->
              BoostPersonas(logged, Get(params, "target_personas", <<>>),
                            Get(params, "appeal_boost", 0))
         [] event.type = "appeal_reset" ->
              [logged EXCEPT !.appeal_to_personas = hs.base_appeal_to_personas,
                             !.table_is_data = FALSE]
         [] event.type = "accessibility_reduction" ->
              [logged EXCEPT !.accessibility_modifier =
                   SCALE + Get(params, "accessibility_penalty", 0)]
         [] event.type = "construction_complete" ->
              [logged EXCEPT !.accessibility_modifier =
                   Max(MinAccessibility, SCALE - Get(params, "accessibility_bonus", 0))]
         [] event.type = "noise_pollution" ->
              [logged EXCEPT !.scenario_satisfaction_modifiers =
                   [p \in DOMAIN hs.appeal_to_personas \cup DOMAIN @ |->
                      IF p \in DOMAIN hs.appeal_to_personas
                      THEN -Get(params, "satisfaction_penalty", 0)
                      ELSE @[p]]]
         [] event.type = "appeal_reduction" ->
              ReducePersonas(logged, DOMAIN hs.appeal_to_personas,
                             Get(params, "reduction", 0))
         [] OTHER -> hs

\* The luxury_tax loop: every persona's appeal becomes the score found in
\* base_appeal_to_personas less the penalty.
RECURSIVE TaxPersonas(_, _, _)
TaxPersonas(hs, personas, tax_penalty) ==
    IF personas = {} THEN hs
    ELSE LET persona == CHOOSE p \in personas : TRUE
             original_score == EntryScore(hs, hs.base_appeal_to_personas, persona)
         IN TaxPersonas(
                SetAppeal(hs, persona, Max(0, original_score - tax_penalty)),
                personas \ {persona}, tax_penalty)

\* ScenarioAwareHotspot.apply_regulations
apply_regulations(hs, regulations) ==
    LET limited ==
            IF "capacity_limit" \in DOMAIN regulations
               /\ regulations["capacity_limit"].target = hs.name
            THEN [hs EXCEPT !.effective_capacity =
                      regulations["capacity_limit"].new_capacity * SCALE]
            ELSE hs
    IN IF "luxury_tax" \in DOMAIN regulations
          /\ hs.category \in regulations["luxury_tax"].affected_categories
       THEN TaxPersonas(limited, DOMAIN limited.appeal_to_personas,
                        Mul(regulations["luxury_tax"].tax_rate, TaxToAppeal))
       ELSE limited

\* Faulty variant of EventIsDue: the event's target is not compared with the
\* hotspot's name.
EventIsDue_AnyTarget(hs, event, current_step) ==
    /\ event.step = current_step
    /\ ~InSeq(event, hs.processed_events)

\* Faulty variant of EventIsDue: the step test admits every later step.
EventIsDue_FromStepOn(hs, event, current_step) ==
    /\ event.step >= current_step
    /\ event.target = hs.name
    /\ ~InSeq(event, hs.processed_events)

\* The condition under which apply_scenario_effects handles an event.
EventIsDue(hs, event, current_step) ==
    /\ event.step = current_step
    /\ event.target = hs.name
    /\ ~InSeq(event, hs.processed_events)

\* The event loop of apply_scenario_effects, in list order.
RECURSIVE ProcessEvents(_, _, _)
ProcessEvents(hs, events, current_step) ==
    IF events = <<>> THEN hs
    ELSE LET event == Head(events)
             handled ==
                 IF EventIsDue(hs, event, current_step)
                 THEN [process_event(hs, event) EXCEPT
                           !.processed_events = Append(@, event)]
                 ELSE hs
         IN ProcessEvents(handled, Tail(events), current_step)

\* Faulty variant of hotspot_apply_scenario_effects: the regulations are
\* applied before the events of the step.
hotspot_apply_scenario_effects_RegulationsFirst(hs, scenario, current_step) ==
    IF ~IsScenario(scenario) THEN hs
    ELSE ProcessEvents(apply_regulations(hs, scenario.regulations),
                       scenario.events, current_step)

\* ScenarioAwareHotspot.apply_scenario_effects
hotspot_apply_scenario_effects(hs, scenario, current_step) ==
    IF ~IsScenario(scenario) THEN hs
    ELSE apply_regulations(ProcessEvents(hs, scenario.events, current_step),
                           scenario.regulations)

\* --------------------------------------------------------------- Tourist
NeutralModifiers ==
    [satisfaction_modifier |-> 0, appeal_sensitivity |-> SCALE,
     cost_sensitivity |-> SCALE, crowding_tolerance |-> SCALE,
     sharing_boost |-> SCALE]

\* Tourist.__init__ and ScenarioAwareTourist.__init__, then grid.place_agent.
\* current_hotspot 0 is None.
NewTourist(persona_data, cell) ==
    [persona_type |-> persona_data.type,
     pos |-> cell,
     current_hotspot |-> 0,
     visited_hotspots |-> <<>>,
     satisfaction |-> InitialSatisfaction,
     recommendations_received |-> <<>>,
     visits_today |-> 0,
     total_visits |-> 0,
     scenario_modifiers |-> NeutralModifiers]

Persona(t) == PersonasData[t.persona_type]

\* ScenarioAwareTourist._process_persona_event
process_persona_event(t, event) ==
    CASE event.type = "satisfaction_penalty" ->
           [t EXCEPT !.scenario_modifiers.satisfaction_modifier =
                         @ - Get(event.parameters, "penalty", 0)]
      [] event.type = "appeal_boost" ->
           [t EXCEPT !.scenario_modifiers.appeal_sensitivity =
                         @ + Get(event.parameters, "boost", 0)]
      [] OTHER -> t

\* The persona-event loop of apply_scenario_effects, in list order.
RECURSIVE ProcessPersonaEvents(_, _, _)
ProcessPersonaEvents(t, events, current_step) ==
    IF events = <<>> THEN t
    ELSE LET event == Head(events)
             handled == IF event.step = current_step
                           /\ event.target = t.persona_type
                        THEN process_persona_event(t, event)
                        ELSE t
         IN ProcessPersonaEvents(handled, Tail(events), current_step)

FactorMappings ==
    [cost_sensitivity |-> "cost_sensitivity",
     event_excitement |-> "satisfaction_modifier",
     inconvenience_tolerance |-> "satisfaction_modifier",
     noise_tolerance |-> "crowding_tolerance"]

\* ScenarioAwareTourist._apply_external_factor
apply_external_factor(t, factor_name, factor_value) ==
    IF factor_name \in DOMAIN FactorMappings
    THEN LET modifier_name == FactorMappings[factor_name]
         IN IF modifier_name = "satisfaction_modifier"
            THEN [t EXCEPT !.scenario_modifiers[modifier_name] = @ + factor_value]
            ELSE [t EXCEPT !.scenario_modifiers[modifier_name] = SCALE + factor_value]
    ELSE t

\* The loop over scenario.external_factors.items().
RECURSIVE ApplyFactors(_, _, _)
ApplyFactors(t, factors, names) ==
    IF names = {} THEN t
    ELSE LET n == CHOOSE x \in names : TRUE
         IN ApplyFactors(apply_external_factor(t, n, factors[n]), factors,
                         names \ {n})

\* Faulty variant of tourist_apply_scenario_effects: the modifiers of the
\* tick before are not reset.
tourist_apply_scenario_effects_NoReset(t, scenario, current_step) ==
    IF ~IsScenario(scenario) THEN t
    ELSE ApplyFactors(ProcessPersonaEvents(t, scenario.events, current_step),
                      scenario.external_factors,
                      DOMAIN scenario.external_factors)

\* Faulty variant of tourist_apply_scenario_effects: the tick's reset also
\* clears the tourist's daily visit counter.
tourist_apply_scenario_effects_ResetsVisits(t, scenario, current_step) ==
    IF ~IsScenario(scenario) THEN t
    ELSE LET reset == [t EXCEPT !.scenario_modifiers = NeutralModifiers,
                                !.visits_today = 0]
             evented == ProcessPersonaEvents(reset, scenario.events, current_step)
         IN ApplyFactors(evented, scenario.external_factors,
                         DOMAIN scenario.external_factors)

\* ScenarioAwareTourist.apply_scenario_effects
tourist_apply_scenario_effects(t, scenario, current_step) ==
    IF ~IsScenario(scenario) THEN t
    ELSE LET reset == [t EXCEPT !.scenario_modifiers = NeutralModifiers]
             evented == ProcessPersonaEvents(reset, scenario.events, current_step)
         IN ApplyFactors(evented, scenario.external_factors,
                         DOMAIN scenario.external_factors)

\* rec_score of choose_hotspot: the inbox entries naming the hotspot.
RECURSIVE RecScore(_, _, _)
RecScore(recs, hotspot_id, trust) ==
    IF recs = <<>> THEN 0
    ELSE (IF Head(recs).hotspot_id = hotspot_id
          THEN Mul(Head(recs).strength, trust) ELSE 0)
         + RecScore(Tail(recs), hotspot_id, trust)

Dist2(a, b) == (a[1] - b[1]) * (a[1] - b[1]) + (a[2] - b[2]) * (a[2] - b[2])

\* Faulty variant of ScoreBeforeDistance: the score is divided by the
\* hotspot's accessibility_modifier.
ScoreBeforeDistance_Accessibility(t, hs, hotspot_id) ==
    ((get_persona_appeal(hs, t.persona_type)
      + Mul(hs.current_popularity, PopularityWeight)
      + RecScore(t.recommendations_received, hotspot_id,
                 Persona(t).recommendation_trust)
      + Mul(IF InSeq(hotspot_id, t.visited_hotspots) THEN 0 ELSE ExplorationBonus,
            Persona(t).exploration_tendency)) * SCALE)
    \div hs.accessibility_modifier

\* total_score of choose_hotspot without the distance penalty.
ScoreBeforeDistance(t, hs, hotspot_id) ==
    get_persona_appeal(hs, t.persona_type)
    + Mul(hs.current_popularity, PopularityWeight)
    + RecScore(t.recommendations_received, hotspot_id,
               Persona(t).recommendation_trust)
    + Mul(IF InSeq(hotspot_id, t.visited_hotspots) THEN 0 ELSE ExplorationBonus,
          Persona(t).exploration_tendency)

\* max(0, total_score) > 0, where total_score subtracts 0.05 * sqrt(dist2):
\* s > 0.05 * sqrt(d2) is decided exactly on the squares.
ScorePositive(t, hs, hotspot_id) ==
    LET s == ScoreBeforeDistance(t, hs, hotspot_id)
    IN s > 0 /\ s * s > DistanceWeight * DistanceWeight * Dist2(t.pos, hs.pos)

\* The hotspots np.random.choice can return: those of non-zero weight, when
\* the sum of the scores is positive; none otherwise.
Choosable(t, hss) == {h \in DOMAIN hss : ScorePositive(t, hss[h], h)}

\* Faulty variant of choose_hotspot: without a draw the choice of an earlier
\* tick is forgotten.
choose_hotspot_ForgetsChoice(t, hss, chosen) ==
    IF chosen = 0 THEN [t EXCEPT !.current_hotspot = 0]
    ELSE [t EXCEPT !.current_hotspot = chosen, !.pos = hss[chosen].pos]

\* Tourist.choose_hotspot with the random draw resolved to `chosen`
\* (0: no draw is made, the sum of the scores is 0).
choose_hotspot(t, hss, chosen) ==
    IF chosen = 0 THEN t
    ELSE [t EXCEPT !.current_hotspot = chosen, !.pos = hss[chosen].pos]

\* Faulty variant of VisitSatisfaction: the result is not clamped.
VisitSatisfaction_Unclamped(t, hs) ==
    Mul(Mul(get_persona_appeal(hs, t.persona_type),
            t.scenario_modifiers.appeal_sensitivity),
        Mul(get_capacity_factor(hs) - SCALE,
            t.scenario_modifiers.crowding_tolerance) + SCALE)
    + Get(hs.scenario_satisfaction_modifiers, t.persona_type, 0)
    + t.scenario_modifiers.satisfaction_modifier

\* The satisfaction ScenarioAwareTourist.visit_hotspot computes at a hotspot
\* whose visit has been recorded.
VisitSatisfaction(t, hs) ==
    LET base_appeal == Mul(get_persona_appeal(hs, t.persona_type),
                           t.scenario_modifiers.appeal_sensitivity)
        capacity_factor == Mul(get_capacity_factor(hs) - SCALE,
                               t.scenario_modifiers.crowding_tolerance) + SCALE
        scenario_satisfaction ==
            Get(hs.scenario_satisfaction_modifiers, t.persona_type, 0)
        raw == Mul(base_appeal, capacity_factor) + scenario_satisfaction
               + t.scenario_modifiers.satisfaction_modifier
    IN Max(0, Min(SCALE, raw))

\* ScenarioAwareTourist.visit_hotspot, the tourist's side (current_hotspot set).
visit_hotspot(t, hs_visited) ==
    [t EXCEPT !.visited_hotspots = Append(@, t.current_hotspot),
              !.visits_today = @ + 1,
              !.total_visits = @ + 1,
              !.satisfaction = VisitSatisfaction(t, hs_visited)]

\* Outcomes of `random.random() < sharing_probability * sharing_boost`,
\* random() being in [0, 1).
ShareOutcomes(t) ==
    LET p == Mul(Persona(t).sharing_probability, t.scenario_modifiers.sharing_boost)
    IN {b \in BOOLEAN : (b => p > 0) /\ (~b => p < SCALE)}

\* The boost share_experience passes to add_social_boost.
ShareBoost(t) ==
    Mul(Mul(t.satisfaction, Persona(t).social_influence), SocialBoostFactor)

Chebyshev(a, b) == Max(Abs(a[1] - b[1]), Abs(a[2] - b[2]))

\* grid.get_neighbors(pos, moore=True, radius=3) filtered to other tourists: the
\* centre cell is not part of the neighbourhood.
NeighborTourists(tid, ts) ==
    {n \in DOMAIN ts : n # tid /\ ts[n].pos # ts[tid].pos
                       /\ Chebyshev(ts[n].pos, ts[tid].pos) <= NeighborRadius}

\* Tourist.make_recommendations raises AttributeError when it builds the first
\* recommendation: it reads self.model.schedule, which the model never sets.
RecommendationRaises(tid, ts) ==
    /\ ts[tid].current_hotspot # 0
    /\ ts[tid].satisfaction >= RecommendThreshold
    /\ NeighborTourists(tid, ts) # {}

\* ------------------------------------------------------------------ state
VARIABLES
    hotspots,          \* unique_id -> ScenarioAwareHotspot
    tourists,          \* unique_id -> ScenarioAwareTourist
    current_scenario,  \* model.current_scenario
    current_step,      \* model.current_step
    model_vars,        \* the rows datacollector.collect has appended
    pc,                \* where model.step() stands: collect, scenario, step,
                       \* increment; raised once an exception has left it
    agent_idx,         \* position of the running loop over model.agents
    error,             \* the exception raised, "none" so far
    first_run          \* what the process keeps of the run of an earlier
                       \* model built from the same inputs and seed

vars == <<hotspots, tourists, current_scenario, current_step, model_vars, pc,
          agent_idx, error, first_run>>

\* ------------------------------------------------------- data collection
\* The model reporters of TourismModel._setup_data_collection.
MetricsRow(hss, ts) ==
    [Average_Popularity |->
        SumSeq([i \in 1..Cardinality(DOMAIN hss) |->
                   hss[i].current_popularity]) \div Cardinality(DOMAIN hss),
     Total_Visitors |->
        SumSeq([i \in 1..Cardinality(DOMAIN hss) |->
                   hss[i].total_visitors + hss[i].visitors_today]),
     Social_Shares |->
        SumSeq([i \in 1..Cardinality(DOMAIN hss) |-> hss[i].social_shares]),
     Average_Satisfaction |->
        SumSeq([i \in 1..Cardinality(DOMAIN ts) |->
                   ts[Cardinality(DOMAIN hss) + i].satisfaction])
            \div Cardinality(DOMAIN ts),
     Active_Tourists |->
        Cardinality({i \in DOMAIN ts :
                        ts[i].visits_today < Persona(ts[i]).daily_visits}),
     Hotspot_Visits_Today |->
        SumSeq([i \in 1..Cardinality(DOMAIN hss) |-> hss[i].visitors_today])]

\* ------------------------------------------------------------------- Init
\* TourismModel.__init__ under ScenarioAwareTourismModel: hotspots are created
\* from the data, each tourist draws a persona and a cell at random.
Construct ==
    /\ \E setup1 \in FirstHotspotSetups, as_dict \in BOOLEAN :
          hotspots = [h \in HotspotIds |->
                         NewHotspot(HotspotsData(setup1, as_dict)[h])]
    /\ \E persona_of \in [TouristIds -> PersonaTypes],
          cell_of \in [TouristIds -> TouristCells] :
          tourists = [t \in TouristIds |->
                         NewTourist(PersonasData[persona_of[t]], cell_of[t])]
    /\ current_scenario \in Scenarios
    /\ current_step = 0
    /\ model_vars = <<>>
    /\ pc = "collect"
    /\ agent_idx = 1
    /\ error = "none"

\* The model object as a whole.
Snapshot ==
    [hotspots |-> hotspots, tourists |-> tourists, current_step |-> current_step,
     model_vars |-> model_vars, pc |-> pc, agent_idx |-> agent_idx,
     error |-> error]

\* No earlier run is kept.
NotRecorded == [run |-> 0, log |-> <<>>, k |-> 0]

\* A single model is constructed and run.
Init ==
    /\ Construct
    /\ first_run = NotRecorded

\* ---------------------------------------------------------------- actions
CurrentAgent == AgentOrder[agent_idx]

\* What the seeded generators returned in a step: the hotspot
\* np.random.choice drew and whether random.random() fell below the sharing
\* probability, as the step shows them; <<>> for a step that draws nothing.
Draw ==
    IF pc = "step" /\ CurrentAgent \in TouristIds
    THEN << tourists'[CurrentAgent].current_hotspot,
            SumSeq([i \in 1..Cardinality(HotspotIds) |-> hotspots'[i].social_shares])
            - SumSeq([i \in 1..Cardinality(HotspotIds) |-> hotspots[i].social_shares]) >>
    ELSE <<>>

\* Every step of a first run (run 1) is logged with its draws; a second run
\* (run 2) of a model constructed with the same seed gets the same draws in
\* the same order.  Run 0 is a run that is not compared with another.
Logged ==
    /\ (first_run.run = 2 /\ first_run.k < Len(first_run.log))
          => Draw = first_run.log[first_run.k + 1].draw
    /\ first_run' =
          CASE first_run.run = 1 ->
                 [first_run EXCEPT !.log = Append(@, [draw |-> Draw,
                                                     state |-> Snapshot'])]
            [] first_run.run = 2 -> [first_run EXCEPT !.k = @ + 1]
            [] OTHER -> first_run

\* The loop over model.agents moves on; after the last agent the next phase
\* of step() begins.
NextAgent(next_pc) ==
    IF agent_idx < Len(AgentOrder)
    THEN /\ agent_idx' = agent_idx + 1
         /\ pc' = pc
    ELSE /\ agent_idx' = 1
         /\ pc' = next_pc

Raise(exception) ==
    /\ pc' = "raised"
    /\ error' = exception
    /\ agent_idx' = agent_idx

\* step(): self.datacollector.collect(self)
Collect ==
    /\ pc = "collect"
    /\ current_step < MaxSteps
    /\ model_vars' = Append(model_vars, MetricsRow(hotspots, tourists))
    /\ pc' = IF IsScenario(current_scenario) THEN "scenario" ELSE "step"
    /\ agent_idx' = 1
    /\ UNCHANGED <<hotspots, tourists, current_scenario, current_step, error>>
    /\ Logged

\* step(): agent.apply_scenario_effects(...) for a hotspot
ApplyScenarioHotspot ==
    /\ pc = "scenario"
    /\ CurrentAgent \in HotspotIds
    /\ hotspots' = [hotspots EXCEPT ![CurrentAgent] =
           hotspot_apply_scenario_effects(@, current_scenario, current_step)]
    /\ NextAgent("step")
    /\ UNCHANGED <<tourists, current_scenario, current_step, model_vars, error>>
    /\ Logged

\* step(): agent.apply_scenario_effects(...) for a tourist
ApplyScenarioTourist ==
    /\ pc = "scenario"
    /\ CurrentAgent \in TouristIds
    /\ tourists' = [tourists EXCEPT ![CurrentAgent] =
           tourist_apply_scenario_effects(@, current_scenario, current_step)]
    /\ NextAgent("step")
    /\ UNCHANGED <<hotspots, current_scenario, current_step, model_vars, error>>
    /\ Logged

\* step(): agent.step() for a hotspot
StepHotspot ==
    /\ pc = "step"
    /\ CurrentAgent \in HotspotIds
    /\ LET res == hotspot_step(hotspots[CurrentAgent])
       IN /\ hotspots' = [hotspots EXCEPT ![CurrentAgent] = res.hs]
          /\ IF res.raised
             THEN Raise("ZeroDivisionError")
             ELSE NextAgent("increment") /\ error' = error
    /\ UNCHANGED <<tourists, current_scenario, current_step, model_vars>>
    /\ Logged

\* What the draw of choose_hotspot can return (0: no draw).
ChoiceOutcomes(t, hss) ==
    IF Choosable(t, hss) = {} THEN {0} ELSE Choosable(t, hss)

\* step(): agent.step() for a tourist: choose, visit, share, recommend.
StepTourist ==
    /\ pc = "step"
    /\ CurrentAgent \in TouristIds
    /\ LET tid == CurrentAgent
           t == tourists[tid]
       IN IF t.visits_today >= Persona(t).daily_visits
          THEN /\ NextAgent("increment")
               /\ UNCHANGED <<hotspots, tourists, error>>
          ELSE \E chosen \in ChoiceOutcomes(t, hotspots), share \in BOOLEAN :
                 LET t1 == choose_hotspot(t, hotspots, chosen)
                 IN IF t1.current_hotspot = 0
                    THEN /\ share = FALSE
                         /\ tourists' = [tourists EXCEPT ![tid] = t1]
                         /\ NextAgent("increment")
                         /\ UNCHANGED <<hotspots, error>>
                    ELSE LET h == t1.current_hotspot
                             visited == record_visit(hotspots[h])
                             t2 == visit_hotspot(t1, visited)
                         IN /\ share \in ShareOutcomes(t2)
                            /\ hotspots' = [hotspots EXCEPT ![h] =
                                   IF share
                                   THEN add_social_boost(visited, ShareBoost(t2))
                                   ELSE visited]
                            /\ tourists' = [tourists EXCEPT ![tid] = t2]
                            /\ IF RecommendationRaises(tid, tourists')
                               THEN Raise("AttributeError")
                               ELSE NextAgent("increment") /\ error' = error
    /\ UNCHANGED <<current_scenario, current_step, model_vars>>
    /\ Logged

\* step(): self.current_step += 1
Increment ==
    /\ pc = "increment"
    /\ current_step' = current_step + 1
    /\ pc' = "collect"
    /\ UNCHANGED <<hotspots, tourists, current_scenario, model_vars, agent_idx,
                   error>>
    /\ Logged

Next ==
    \/ Collect
    \/ ApplyScenarioHotspot
    \/ ApplyScenarioTourist
    \/ StepHotspot
    \/ StepTourist
    \/ Increment

Spec == Init /\ [][Next]_vars

\* ------------------------------------------------- two runs, one process
\* The hotspot_data dictionary the caller holds, as the hotspot built from it
\* has left it: the appeal scores are whatever has been written through
\* self.appeal_to_personas while it was the caller's dictionary.
HotspotDataNow(hs) ==
    [name |-> hs.name, category |-> hs.category, pos |-> hs.pos,
     initial_popularity |-> hs.initial_popularity,
     base_capacity |-> hs.base_capacity,
     is_dict |-> \E p \in DOMAIN hs.data_appeal : hs.data_appeal[p].is_dict,
     appeal_scores |-> [p \in DOMAIN hs.data_appeal |->
                          EntryScore(hs, hs.data_appeal, p)]]

\* A first run whose steps are logged.
InitTwoRuns ==
    /\ Construct
    /\ first_run = [run |-> 1, k |-> 1,
                    log |-> << [draw |-> <<>>, state |-> Snapshot] >>]

\* The first run is over (run_simulation has returned or raised) and a second
\* model is constructed from the same hotspots_data, personas_data, scenario
\* and random_seed: the constructor seeds the generators again, so the
\* tourists draw the personas and cells they drew in the first run.
Reconstruct ==
    /\ first_run.run = 1
    /\ pc = "raised" \/ (pc = "collect" /\ current_step = MaxSteps)
    /\ hotspots' = [h \in HotspotIds |-> NewHotspot(HotspotDataNow(hotspots[h]))]
    /\ tourists' = first_run.log[1].state.tourists
    /\ current_step' = 0
    /\ model_vars' = <<>>
    /\ pc' = "collect"
    /\ agent_idx' = 1
    /\ error' = "none"
    /\ first_run' = [first_run EXCEPT !.run = 2, !.k = 1]
    /\ UNCHANGED current_scenario

NextTwoRuns ==
    \/ Next
    \/ Reconstruct

SpecTwoRuns == InitTwoRuns /\ [][NextTwoRuns]_vars

\* ------------------------------------------- a run with set_scenario calls
\* ScenarioAwareTourismModel.set_scenario, called between two step() calls.
SetScenario ==
    /\ pc = "collect"
    /\ \E scenario \in Scenarios :
          /\ scenario # current_scenario
          /\ current_scenario' = scenario
    /\ UNCHANGED <<hotspots, tourists, current_step, model_vars, pc, agent_idx,
                   error, first_run>>

NextSetScenario ==
    \/ Next
    \/ SetScenario

SpecSetScenario == Init /\ [][NextSetScenario]_vars

\* ------------------------------------------------- a hotspot on its own
\* One hotspot, created from its data and driven through record_visit(),
\* add_social_boost() and step() in any order; current_step counts the
\* step() calls and pc names the method called last.
UnitCapacities == {1, 3, 10}
UnitPopularities == {0, 100, 500, 850, 1000}
UnitBoosts == {40, 300}

UnitHotspotData(capacity, popularity) ==
    [name |-> "U1", category |-> "museum", pos |-> <<0, 0>>,
     initial_popularity |-> popularity, base_capacity |-> capacity,
     is_dict |-> FALSE, appeal_scores |-> [budget |-> 800]]

InitHotspot ==
    /\ \E capacity \in UnitCapacities, popularity \in UnitPopularities :
          hotspots = [h \in {1} |->
                         NewHotspot(UnitHotspotData(capacity, popularity))]
    /\ tourists = <<>>
    /\ current_scenario = NoScenario
    /\ current_step = 0
    /\ model_vars = <<>>
    /\ pc = "Hotspot.__init__"
    /\ agent_idx = 1
    /\ error = "none"
    /\ first_run = NotRecorded

HotspotCalls ==
    {"Hotspot.__init__", "Hotspot.record_visit", "Hotspot.add_social_boost",
     "Hotspot.step"}

HotspotRecordVisit ==
    /\ pc \in HotspotCalls
    /\ hotspots[1].visitors_today < MaxVisits
    /\ hotspots' = [hotspots EXCEPT ![1] = record_visit(@)]
    /\ pc' = "Hotspot.record_visit"
    /\ UNCHANGED <<tourists, current_scenario, current_step, model_vars,
                   agent_idx, error, first_run>>

HotspotAddSocialBoost ==
    /\ pc \in HotspotCalls
    /\ hotspots[1].social_shares < MaxShares
    /\ \E boost \in UnitBoosts :
          hotspots' = [hotspots EXCEPT ![1] = add_social_boost(@, boost)]
    /\ pc' = "Hotspot.add_social_boost"
    /\ UNCHANGED <<tourists, current_scenario, current_step, model_vars,
                   agent_idx, error, first_run>>

HotspotStep ==
    /\ pc \in HotspotCalls
    /\ current_step < MaxSteps
    /\ LET res == hotspot_step(hotspots[1])
       IN /\ hotspots' = [hotspots EXCEPT ![1] = res.hs]
          /\ IF res.raised
             THEN Raise("ZeroDivisionError")
             ELSE /\ pc' = "Hotspot.step"
                  /\ UNCHANGED <<agent_idx, error>>
    /\ current_step' = current_step + 1
    /\ UNCHANGED <<tourists, current_scenario, model_vars, first_run>>

NextHotspot ==
    \/ HotspotRecordVisit
    \/ HotspotAddSocialBoost
    \/ HotspotStep

SpecHotspot == InitHotspot /\ [][NextHotspot]_vars

\* ----------------------------------------------------------------- claims
\* How often a hotspot has handled an event: process_event and the append to
\* processed_events happen together.
TimesHandled(h, event) == Count(hotspots[h].processed_events, event)

\* How many visits tourists have recorded at a hotspot: each record_visit call
\* comes with an append of the hotspot to the visitor's visited_hotspots.
RecordedVisits(h) ==
    SumSeq([i \in 1..Cardinality(TouristIds) |->
               Count(tourists[Cardinality(HotspotIds) + i].visited_hotspots, h)])

\* The appeal a hotspot was created with for a persona.
CreationAppeal(h, persona) ==
    Get(HotspotsData(<<1, 500>>, FALSE)[h].appeal_scores, persona, DefaultAppeal)

\* C1: every event of the scenario that targets a hotspot by name has been
\* handled by that hotspot exactly once when its step lies behind the step
\* counter, not at all while its step lies ahead, and never more than once,
\* although the whole event list is scanned in every tick.
C1_EventHandledExactlyOnce ==
    \A h \in HotspotIds : \A i \in 1..Len(current_scenario.events) :
        LET event == current_scenario.events[i]
        IN event.target = hotspots[h].name =>
              /\ event.step < current_step => TimesHandled(h, event) = 1
              /\ event.step > current_step => TimesHandled(h, event) = 0
              /\ TimesHandled(h, event) <= 1

\* An event handled once and scanned again in a later tick.
C1_Witness ==
    \E h \in HotspotIds : \E i \in 1..Len(current_scenario.events) :
        LET event == current_scenario.events[i]
        IN /\ event.target = hotspots[h].name
           /\ event.step + 2 <= current_step
           /\ TimesHandled(h, event) = 1

\* C2 (as claimed): a hotspot's total_visitors equals the number of
\* record_visit calls made against it.
C2_TotalVisitorsCountsVisits ==
    \A h \in HotspotIds : hotspots[h].total_visitors = RecordedVisits(h)

\* The event types whose handlers write appeal scores.
AppealEventTypes == {"appeal_boost", "appeal_reduction", "appeal_reset"}

\* The hotspot has handled an appeal_reset, only appeal_boost events wrote
\* appeal scores before it and no event wrote them after it.
BoostsThenReset(h) ==
    LET handled == hotspots[h].processed_events
    IN \E j \in 1..Len(handled) :
          /\ handled[j].type = "appeal_reset"
          /\ \E k \in 1..(j - 1) : handled[k].type = "appeal_boost"
          /\ \A k \in 1..(j - 1) :
                handled[k].type \notin {"appeal_reduction", "appeal_reset"}
          /\ \A k \in (j + 1)..Len(handled) :
                handled[k].type \notin AppealEventTypes

\* The active scenario taxes the hotspot's category.
Taxed(h) ==
    /\ "luxury_tax" \in DOMAIN current_scenario.regulations
    /\ hotspots[h].category \in
          current_scenario.regulations["luxury_tax"].affected_categories

\* apply_scenario_effects of the active scenario has run on the hotspot.
ScenarioApplied(h) ==
    /\ IsScenario(current_scenario)
    /\ \/ current_step >= 1
       \/ pc \in {"step", "increment", "raised"}
       \/ pc = "scenario" /\ agent_idx > h

\* C3 (as claimed): after appeal_boost events followed by an appeal_reset,
\* every persona's appeal is the one the hotspot was created with, for plain
\* numbers and for {appeal_score: ...} records alike.
C3_ResetRestoresCreationAppeal ==
    \A h \in HotspotIds :
        (BoostsThenReset(h) /\ ~Taxed(h)) =>
            \A p \in PersonaTypes :
                get_persona_appeal(hotspots[h], p) = CreationAppeal(h, p)

\* C4 (as claimed): under a luxury_tax on the hotspot's category and without
\* appeal events, after each tick's apply_scenario_effects every persona's
\* appeal is max(0, creation-time appeal - tax_rate * 0.5), in every tick.
C4_TaxFromCreationAppeal ==
    \A h \in HotspotIds :
        (Taxed(h) /\ ScenarioApplied(h) /\ hotspots[h].processed_events = <<>>) =>
            \A p \in DOMAIN hotspots[h].appeal_to_personas :
                get_persona_appeal(hotspots[h], p) =
                    Max(0, CreationAppeal(h, p)
                           - Mul(current_scenario.regulations["luxury_tax"].tax_rate,
                                 TaxToAppeal))

\* C5: every hotspot's current_popularity stays within [0, 1].
C5_PopularityInUnitInterval ==
    \A h \in HotspotIds :
        0 <= hotspots[h].current_popularity
        /\ hotspots[h].current_popularity <= SCALE

\* A social boost has taken a hotspot's popularity to the cap.
C5_Witness ==
    \E h \in HotspotIds :
        /\ hotspots[h].social_shares > 0
        /\ hotspots[h].current_popularity = SCALE

\* C6: every tourist's satisfaction stays within [0, 1], whatever the
\* scenario modifiers and the crowding.
C6_SatisfactionInUnitInterval ==
    \A t \in TouristIds :
        0 <= tourists[t].satisfaction /\ tourists[t].satisfaction <= SCALE

\* A visit under a negative satisfaction modifier that ended at the floor.
C6_Witness ==
    \E t \in TouristIds :
        /\ tourists[t].total_visits > 0
        /\ tourists[t].scenario_modifiers.satisfaction_modifier < 0
        /\ tourists[t].satisfaction = 0

\* C7: get_capacity_factor() is at most 1.0, and is 1.0 when nobody has
\* visited today, for the scenario-aware hotspot and for the base class.
C7_CapacityFactorAtMostOne ==
    \A h \in HotspotIds :
        /\ get_capacity_factor(hotspots[h]) <= SCALE
        /\ base_get_capacity_factor(hotspots[h]) <= SCALE
        /\ hotspots[h].visitors_today = 0 =>
              /\ get_capacity_factor(hotspots[h]) = SCALE
              /\ base_get_capacity_factor(hotspots[h]) = SCALE

\* A visited hotspot whose scenario-modified capacity exceeds today's visitors.
C7_Witness ==
    \E h \in HotspotIds :
        /\ hotspots[h].visitors_today > 0
        /\ hotspots[h].effective_capacity # hotspots[h].base_capacity * SCALE
        /\ hotspots[h].effective_capacity > hotspots[h].visitors_today * SCALE

\* C8 (as claimed): a tourist that steps while every hotspot's clamped score
\* is 0 still selects a hotspot and visits it in that tick.
C8_ZeroScoresStillVisit ==
    [][(/\ pc = "step"
        /\ CurrentAgent \in TouristIds
        /\ tourists[CurrentAgent].visits_today
              < Persona(tourists[CurrentAgent]).daily_visits
        /\ Choosable(tourists[CurrentAgent], hotspots) = {})
       => (/\ tourists'[CurrentAgent].current_hotspot \in HotspotIds
           /\ tourists'[CurrentAgent].total_visits
                 = tourists[CurrentAgent].total_visits + 1)]_vars

\* C9 (as claimed): no run raises a division by zero.
C9_NoDivisionByZero == error # "ZeroDivisionError"

\* C10 (as claimed): when the agents of a tick have stepped and the step
\* counter is about to be incremented, the tick's metrics row has been
\* appended and shows the state the agents left.
C10_RowAfterAgentSteps ==
    pc = "increment" =>
        /\ Len(model_vars) = current_step + 1
        /\ model_vars[Len(model_vars)] = MetricsRow(hotspots, tourists)


\* C11: a run without a scenario and a run under a scenario with no events, no
\* regulations and no external factors differ only in that the second calls
\* apply_scenario_effects on every agent at the start of each tick.  In every
\* state either run reaches, that call leaves every hotspot and every tourist
\* as the run without a scenario has it, so the two runs go through the same
\* agent states and collect the same metrics rows.
C11_EmptyScenarioLikeNone ==
    current_scenario \in {NoScenario, EmptyScenario} =>
        /\ \A h \in HotspotIds :
              hotspot_apply_scenario_effects(hotspots[h], EmptyScenario, current_step)
                 = hotspot_apply_scenario_effects(hotspots[h], NoScenario, current_step)
        /\ \A t \in TouristIds :
              tourist_apply_scenario_effects(tourists[t], EmptyScenario, current_step)
                 = tourist_apply_scenario_effects(tourists[t], NoScenario, current_step)
        /\ \A h \in HotspotIds :
              /\ hotspots[h].processed_events = <<>>
              /\ hotspots[h].active_events = <<>>
              /\ hotspots[h].effective_capacity = hotspots[h].base_capacity * SCALE
        /\ \A t \in TouristIds : tourists[t].scenario_modifiers = NeutralModifiers

\* The empty scenario has been applied in a later tick to agents that have
\* visited and shared.
C11_Witness ==
    /\ current_scenario = EmptyScenario
    /\ current_step >= 1
    /\ pc = "step"
    /\ \E t \in TouristIds : tourists[t].visits_today > 0
    /\ \E h \in HotspotIds : hotspots[h].social_shares > 0


\* C12 (as claimed): a second run made with the same seed, the same persona,
\* hotspot and scenario inputs and the same number of steps goes through the
\* states the first run went through, one by one, metrics rows included.
C12_SecondRunRepeatsFirst ==
    first_run.run = 2 =>
        /\ first_run.k <= Len(first_run.log)
        /\ Snapshot = first_run.log[first_run.k].state


IsCapacityEvent(event) == event.type \in {"capacity_boost", "capacity_reset"}

\* The capacity events among the events a hotspot handles in a step.
NewCapacityEvents(h) ==
    SelectSeq(SubSeq(hotspots'[h].processed_events,
                     Len(hotspots[h].processed_events) + 1,
                     Len(hotspots'[h].processed_events)),
              IsCapacityEvent)

\* C13: no step changes a hotspot's base_capacity; without a capacity_limit
\* regulation, a step in which the hotspot handles capacity events leaves
\* effective_capacity at base_capacity * capacity_multiplier when the last of
\* them is a capacity_boost and at exactly base_capacity when it is a
\* capacity_reset, whatever boosts came before, and any other step leaves
\* effective_capacity alone.
C13_CapacityBoostAndReset ==
    [][\A h \in HotspotIds :
          /\ hotspots'[h].base_capacity = hotspots[h].base_capacity
          /\ "capacity_limit" \notin DOMAIN current_scenario.regulations =>
                LET caps == NewCapacityEvents(h)
                    last == caps[Len(caps)]
                IN IF caps = <<>>
                   THEN hotspots'[h].effective_capacity
                           = hotspots[h].effective_capacity
                   ELSE IF last.type = "capacity_boost"
                   THEN hotspots'[h].effective_capacity
                           = hotspots[h].base_capacity
                             * Get(last.parameters, "capacity_multiplier", SCALE)
                   ELSE hotspots'[h].effective_capacity
                           = hotspots[h].base_capacity * SCALE]_vars

\* A hotspot of base capacity 100 back at 100 after two capacity_boost events,
\* the first of which had taken it to 200, and a capacity_reset.
C13_Witness ==
    \E h \in HotspotIds :
        LET handled == hotspots[h].processed_events
        IN /\ hotspots[h].base_capacity = 100
           /\ hotspots[h].effective_capacity = 100 * SCALE
           /\ \E i, j, k \in 1..Len(handled) :
                 /\ i < j /\ j < k
                 /\ handled[i].type = "capacity_boost"
                 /\ handled[i].parameters.capacity_multiplier = 2 * SCALE
                 /\ handled[j].type = "capacity_boost"
                 /\ handled[k].type = "capacity_reset"


\* The popularity the claimed rule gives before the viral check: the decay,
\* then, with v visitors over a capacity of c, the penalty (v - c) / c * 0.5,
\* floored at 0.
ClaimedBeforeViral(p, v, c) ==
    LET decayed == Mul(p, SCALE - DecayRate)
    IN IF v > c
       THEN Max(0, decayed - Mul(((v - c) * SCALE) \div c, CapacityPenalty))
       ELSE decayed

\* C14: a step() of a hotspot with v visitors today and capacity c takes the
\* popularity p to max(0, p * (1 - decay_rate) - (v - c) / c * capacity_penalty)
\* before the viral check when v > c and to p * (1 - decay_rate) when v <= c;
\* with c = 10 and v = 15 what is taken off after the decay is 0.25.
C14_OvercrowdingPenalty ==
    [][pc' = "Hotspot.step" =>
         LET p == hotspots[1].current_popularity
             v == hotspots[1].visitors_today
             c == hotspots[1].capacity
             q == ClaimedBeforeViral(p, v, c)
         IN /\ hotspots'[1].current_popularity =
                  IF q > ViralThreshold
                  THEN Min(SCALE, q + Mul(q - ViralThreshold, ViralFactor))
                  ELSE q
            /\ (c = 10 /\ v = 15) =>
                  q = Max(0, Mul(p, SCALE - DecayRate) - 250)
            /\ v <= c => q = Mul(p, SCALE - DecayRate)]_vars

\* The step of a hotspot of capacity 10 that had 15 visitors has taken 0.25
\* off a popularity that the decay had left above 0.25.
C14_Witness ==
    /\ pc = "Hotspot.step"
    /\ hotspots[1].capacity = 10
    /\ hotspots[1].total_visitors = 2 * MaxVisits
    /\ hotspots[1].initial_popularity = 500
    /\ hotspots[1].social_shares = 0
    /\ hotspots[1].current_popularity = 240


\* C15: whenever a hotspot's social_shares changes, a tourist's step has
\* shared there: social_shares has grown by exactly 1 and the popularity is
\* min(1.0, popularity + satisfaction * social_influence * 0.1).  The hotspots
\* step before the tourists, so the share comes after the tick's decay: in the
\* first tick, the first share at a hotspot created at popularity 0.5, by a
\* tourist of satisfaction 0.8 and social_influence 0.5, leaves
\* min(1.0, 0.5 * 0.98 + 0.8 * 0.5 * 0.1) = 0.53.
C15_ShareAfterDecay ==
    [][\A h \in HotspotIds :
          hotspots'[h].social_shares # hotspots[h].social_shares =>
             LET t == tourists'[CurrentAgent]
                 boost == Mul(Mul(t.satisfaction, Persona(t).social_influence),
                              SocialBoostFactor)
             IN /\ pc = "step"
                /\ CurrentAgent \in TouristIds
                /\ hotspots'[h].social_shares = hotspots[h].social_shares + 1
                /\ hotspots'[h].current_popularity
                      = Min(SCALE, hotspots[h].current_popularity + boost)
                /\ (/\ current_step = 0
                    /\ hotspots[h].initial_popularity = 500
                    /\ hotspots[h].social_shares = 0
                    /\ t.satisfaction = 800
                    /\ Persona(t).social_influence = 500)
                   => hotspots'[h].current_popularity = 530]_vars

\* The first tick has ended with one visit and one share at a hotspot created
\* at popularity 0.5, which now stands at 0.53.
C15_Witness ==
    \E h \in HotspotIds :
        /\ pc = "increment"
        /\ current_step = 0
        /\ hotspots[h].initial_popularity = 500
        /\ hotspots[h].visitors_today = 1
        /\ hotspots[h].social_shares = 1
        /\ hotspots[h].current_popularity = 530


\* run_simulation(MaxSteps) is over: it has returned after its last step() or
\* an exception has left it.
RunOver == pc = "raised" \/ (pc = "collect" /\ current_step = MaxSteps)

\* C16 (as claimed): run_simulation(N) ends having made exactly N step()
\* calls: the step counter has grown by N and the metrics series by N rows,
\* one for each call.
C16_RunMakesAllSteps ==
    /\ RunOver => /\ current_step = MaxSteps
                  /\ Len(model_vars) = MaxSteps
    /\ pc = "collect" => Len(model_vars) = current_step


EventKey(event) == <<event.step, event.target, event.type>>

\* C17 (as claimed): a hotspot runs its event handler at most once for each
\* (step, target, type): no two of the events it has handled share the key.
C17_OncePerKey ==
    \A h \in HotspotIds :
        \A i, j \in 1..Len(hotspots[h].processed_events) :
            i # j => EventKey(hotspots[h].processed_events[i])
                        # EventKey(hotspots[h].processed_events[j])


\* The modifiers a tourist has when they are reset to neutral and recomputed
\* from a scenario's events of the step and its external factors; neutral
\* when there is no scenario.
ClaimedModifiers(t, scenario, step) ==
    ApplyFactors(
        ProcessPersonaEvents([t EXCEPT !.scenario_modifiers = NeutralModifiers],
                             scenario.events, step),
        scenario.external_factors,
        DOMAIN scenario.external_factors).scenario_modifiers

\* C18 (as claimed): while the agents of a tick step, every tourist's
\* scenario modifiers are the ones reset and recomputed from the scenario
\* active in that tick, so they are neutral in every tick that runs without
\* a scenario, also after set_scenario(None) has taken a scenario away.
C18_ModifiersFromActiveScenario ==
    pc \in {"step", "increment"} =>
        \A t \in TouristIds :
            tourists[t].scenario_modifiers
               = ClaimedModifiers(tourists[t], current_scenario, current_step)


\* The event types process_event has a branch for.
HotspotEventTypes ==
    {"capacity_boost", "capacity_reset", "appeal_boost", "appeal_reset",
     "accessibility_reduction", "construction_complete", "noise_pollution",
     "appeal_reduction"}

\* C19 (as claimed): an event of a hotspot type whose target is "all" has been
\* handled by every hotspot once the tick of its step is over.
C19_AllTargetsEveryHotspot ==
    \A h \in HotspotIds : \A i \in 1..Len(current_scenario.events) :
        LET event == current_scenario.events[i]
        IN (/\ event.target = "all"
            /\ event.type \in HotspotEventTypes
            /\ event.step < current_step)
           => TimesHandled(h, event) >= 1


\* The popularity the claimed rule gives before the viral check when the
\* penalty is decided and computed on effective_capacity.
ClaimedBeforeViralEffective(p, v, effective_capacity) ==
    LET decayed == Mul(p, SCALE - DecayRate)
    IN IF v * SCALE > effective_capacity
       THEN Max(0, decayed
                   - Mul(((v * SCALE - effective_capacity) * SCALE)
                            \div effective_capacity,
                         CapacityPenalty))
       ELSE decayed

\* C20 (as claimed): the step() of a hotspot whose effective_capacity differs
\* from its base_capacity applies the overcrowding penalty if and only if
\* visitors_today > effective_capacity, and computes it as
\* (visitors_today - effective_capacity) / effective_capacity * capacity_penalty.
C20_PenaltyOnEffectiveCapacity ==
    [][\A h \in HotspotIds :
          (/\ pc = "step"
           /\ CurrentAgent = h
           /\ pc' # "raised"
           /\ hotspots[h].effective_capacity # hotspots[h].base_capacity * SCALE
           /\ hotspots[h].effective_capacity > 0)
          => LET q == ClaimedBeforeViralEffective(hotspots[h].current_popularity,
                                                  hotspots[h].visitors_today,
                                                  hotspots[h].effective_capacity)
             IN hotspots'[h].current_popularity =
                   IF q > ViralThreshold
                   THEN Min(SCALE, q + Mul(q - ViralThreshold, ViralFactor))
                   ELSE q]_vars


\* The satisfaction of a visit when the capacity factor is
\* min(1, effective_capacity / n).
SatisfactionAsNth(t, hs, n) ==
    LET base_appeal == Mul(get_persona_appeal(hs, t.persona_type),
                           t.scenario_modifiers.appeal_sensitivity)
        capacity_factor ==
            Mul(Min(SCALE, hs.effective_capacity \div n) - SCALE,
                t.scenario_modifiers.crowding_tolerance) + SCALE
    IN Max(0, Min(SCALE,
                  Mul(base_appeal, capacity_factor)
                  + Get(hs.scenario_satisfaction_modifiers, t.persona_type, 0)
                  + t.scenario_modifiers.satisfaction_modifier))

\* C21: when the first tourist of a tick is about to step, every hotspot's
\* visitors_today is 0, so no visit of an earlier tick is counted; a tourist's
\* visit raises visitors_today of the hotspot it visits by exactly 1 and of no
\* other hotspot, so the N-th visitor of the tick finds N; and its
\* satisfaction is computed with the capacity factor
\* min(1, effective_capacity / N).
C21_NthVisitorOfTheTick ==
    [][(pc = "step" /\ CurrentAgent \in TouristIds) =>
          /\ (\A t \in TouristIds : CurrentAgent <= t) =>
                \A h \in HotspotIds : hotspots[h].visitors_today = 0
          /\ \A h \in HotspotIds :
                IF tourists'[CurrentAgent].total_visits
                      # tourists[CurrentAgent].total_visits
                   /\ tourists'[CurrentAgent].current_hotspot = h
                THEN /\ hotspots'[h].visitors_today
                           = hotspots[h].visitors_today + 1
                     /\ hotspots'[h].visitors_today
                           <= agent_idx - Cardinality(HotspotIds)
                     /\ tourists'[CurrentAgent].satisfaction
                           = SatisfactionAsNth(tourists[CurrentAgent], hotspots[h],
                                               hotspots'[h].visitors_today)
                ELSE hotspots'[h].visitors_today = hotspots[h].visitors_today]_vars

\* In a later tick the second tourist has been the second visitor of a
\* hotspot whose effective capacity is below 2: its capacity factor was under 1.
C21_Witness ==
    \E h \in HotspotIds :
        /\ pc = "increment"
        /\ current_step >= 1
        /\ hotspots[h].visitors_today = 2
        /\ hotspots[h].total_visitors > 2
        /\ hotspots[h].effective_capacity < 2 * SCALE
        /\ hotspots[h].effective_capacity > 0
        /\ \A t \in TouristIds : tourists[t].current_hotspot = h


\* A scenario without its capacity_limit regulation.
WithoutCapacityLimit(scenario) ==
    [scenario EXCEPT !.regulations =
        [r \in DOMAIN scenario.regulations \ {"capacity_limit"} |->
            scenario.regulations[r]]]

\* C22: under a scenario with a capacity_limit regulation, a hotspot's
\* apply_scenario_effects leaves effective_capacity at the regulation's
\* new_capacity when the regulation names the hotspot, whatever capacity_boost
\* or capacity_reset events it has handled in this tick or before, and at the
\* value the scenario gives without the regulation when it names another.
C22_CapacityLimitOverrides ==
    [][\A h \in HotspotIds :
          (/\ pc = "scenario"
           /\ CurrentAgent = h
           /\ "capacity_limit" \in DOMAIN current_scenario.regulations)
          => IF current_scenario.regulations["capacity_limit"].target
                   = hotspots[h].name
             THEN hotspots'[h].effective_capacity
                     = current_scenario.regulations["capacity_limit"].new_capacity
                       * SCALE
             ELSE hotspots'[h].effective_capacity
                     = hotspot_apply_scenario_effects(
                           hotspots[h], WithoutCapacityLimit(current_scenario),
                           current_step).effective_capacity]_vars

\* The hotspot the regulation names has handled a capacity_boost and a
\* capacity_reset and stands at the regulation's capacity.
C22_Witness ==
    \E h \in HotspotIds :
        /\ "capacity_limit" \in DOMAIN current_scenario.regulations
        /\ current_scenario.regulations["capacity_limit"].target = hotspots[h].name
        /\ \E i, j \in 1..Len(hotspots[h].processed_events) :
              /\ hotspots[h].processed_events[i].type = "capacity_boost"
              /\ hotspots[h].processed_events[j].type = "capacity_reset"
        /\ hotspots[h].effective_capacity
              = current_scenario.regulations["capacity_limit"].new_capacity * SCALE
        /\ hotspots[h].effective_capacity # hotspots[h].base_capacity * SCALE


\* The appeal_boost loop as claimed for an event without target_personas: over
\* every persona of the table.
RECURSIVE ClaimedBoostAll(_, _, _)
ClaimedBoostAll(hs, personas, boost) ==
    IF personas = {} THEN hs
    ELSE LET persona == CHOOSE p \in personas : TRUE
         IN ClaimedBoostAll(
                SetAppeal(hs, persona,
                          Min(SCALE, get_persona_appeal(hs, persona) + boost)),
                personas \ {persona}, boost)

\* The event loop of apply_scenario_effects with the claimed appeal_boost.
RECURSIVE ClaimedProcessEvents(_, _, _)
ClaimedProcessEvents(hs, events, step) ==
    IF events = <<>> THEN hs
    ELSE LET event == Head(events)
             handled ==
                 IF ~EventIsDue(hs, event, step) THEN hs
                 ELSE [(IF /\ event.type = "appeal_boost"
                           /\ "target_personas" \notin DOMAIN event.parameters
                        THEN ClaimedBoostAll(hs, DOMAIN hs.appeal_to_personas,
                                             Get(event.parameters, "appeal_boost", 0))
                        ELSE process_event(hs, event))
                       EXCEPT !.processed_events = Append(@, event)]
         IN ClaimedProcessEvents(handled, Tail(events), step)

\* C23 (as claimed): a hotspot's apply_scenario_effects leaves every persona of
\* its table with the appeal that results when an appeal_boost event without
\* target_personas raises every persona of the table to
\* min(1, appeal + appeal_boost) and one with target_personas raises exactly the
\* listed personas of the table.
C23_BoostWithoutTargetsRaisesAll ==
    [][\A h \in HotspotIds :
          (pc = "scenario" /\ CurrentAgent = h /\ IsScenario(current_scenario))
          => \A p \in DOMAIN hotspots[h].appeal_to_personas :
                get_persona_appeal(hotspots'[h], p)
                   = get_persona_appeal(
                         apply_regulations(
                             ClaimedProcessEvents(hotspots[h], current_scenario.events,
                                                  current_step),
                             current_scenario.regulations), p)]_vars


\* The strength of a recommendation from tourist t to tourist n.
ClaimedStrength(t, n) ==
    Mul(IF n.persona_type = t.persona_type
        THEN Persona(t).influence_on_similar
        ELSE Persona(t).influence_on_different,
        t.satisfaction)

\* C24 (as claimed): a tourist step with a visit changes no inbox when the
\* visitor's satisfaction is below 0.6; otherwise every other tourist within
\* Chebyshev distance 3 of the visitor, the visitor's own cell included, gains
\* exactly one entry with the visited hotspot and the strength
\* influence * satisfaction, and all other inboxes stay as they are.
C24_RecommendationsReachNeighbours ==
    [][\A tid \in TouristIds :
          (/\ pc = "step"
           /\ CurrentAgent = tid
           /\ tourists'[tid].total_visits # tourists[tid].total_visits)
          => \A n \in TouristIds :
                LET before == tourists[n].recommendations_received
                    after == tourists'[n].recommendations_received
                IN IF /\ n # tid
                      /\ tourists'[tid].satisfaction >= RecommendThreshold
                      /\ Chebyshev(tourists'[n].pos, tourists'[tid].pos)
                            <= NeighborRadius
                   THEN /\ Len(after) = Len(before) + 1
                        /\ SubSeq(after, 1, Len(before)) = before
                        /\ after[Len(after)].hotspot_id = tourists'[tid].current_hotspot
                        /\ after[Len(after)].strength
                              = ClaimedStrength(tourists'[tid], tourists'[n])
                   ELSE after = before]_vars


\* C26 (as claimed): whatever events and regulations a hotspot has handled,
\* appeal_boost events with negative boosts included, get_persona_appeal
\* returns a score within [0, 1] for every persona.
C26_AppealInUnitInterval ==
    \A h \in HotspotIds : \A p \in PersonaTypes :
        /\ get_persona_appeal(hotspots[h], p) >= 0
        /\ get_persona_appeal(hotspots[h], p) <= SCALE


\* What the persona events of one tick add up to for a persona type: the
\* values of parameter `key` of the events of type `type`.
PersonaEventSum(scenario, step, persona_type, type, key) ==
    SumSeq([i \in 1..Len(scenario.events) |->
               IF /\ scenario.events[i].step = step
                  /\ scenario.events[i].target = persona_type
                  /\ scenario.events[i].type = type
               THEN Get(scenario.events[i].parameters, key, 0)
               ELSE 0])

\* C27: under a scenario, a tourist's apply_scenario_effects leaves, in every
\* tick, satisfaction_modifier at the sum of the event_excitement and
\* inconvenience_tolerance factors present less the satisfaction penalties of
\* the tick's persona events, crowding_tolerance at 1 + noise_tolerance (1
\* without that factor), cost_sensitivity at 1 + cost_sensitivity (1 without),
\* appeal_sensitivity at 1 plus the tick's persona boosts and sharing_boost at
\* 1; other factor names change nothing and raise no error, and nothing of the
\* tick before remains.
C27_ModifiersFromFactorsEachTick ==
    [][\A tid \in TouristIds :
          (pc = "scenario" /\ CurrentAgent = tid /\ IsScenario(current_scenario))
          => LET f == current_scenario.external_factors
                 m == tourists'[tid].scenario_modifiers
                 persona_type == tourists[tid].persona_type
             IN /\ m.satisfaction_modifier
                      = Get(f, "event_excitement", 0)
                        + Get(f, "inconvenience_tolerance", 0)
                        - PersonaEventSum(current_scenario, current_step,
                                          persona_type, "satisfaction_penalty",
                                          "penalty")
                /\ m.crowding_tolerance
                      = IF "noise_tolerance" \in DOMAIN f
                        THEN SCALE + f["noise_tolerance"] ELSE SCALE
                /\ m.cost_sensitivity
                      = IF "cost_sensitivity" \in DOMAIN f
                        THEN SCALE + f["cost_sensitivity"] ELSE SCALE
                /\ m.appeal_sensitivity
                      = SCALE + PersonaEventSum(current_scenario, current_step,
                                                persona_type, "appeal_boost", "boost")
                /\ m.sharing_boost = SCALE
                /\ error' = error
                /\ pc' # "raised"]_vars

\* In a tick after the first, under a scenario with a factor name outside the
\* recognised four, a tourist holds a satisfaction modifier made of the
\* scenario's factors and no error has been raised.
C27_Witness ==
    \E tid \in TouristIds :
        /\ current_step >= 1
        /\ pc = "step"
        /\ error = "none"
        /\ IsScenario(current_scenario)
        /\ DOMAIN current_scenario.external_factors \ DOMAIN FactorMappings # {}
        /\ "event_excitement" \in DOMAIN current_scenario.external_factors
        /\ tourists[tid].scenario_modifiers.satisfaction_modifier
              = current_scenario.external_factors["event_excitement"]
        /\ tourists[tid].scenario_modifiers.satisfaction_modifier # 0


\* apply_scenario_effects of the tick has run on every agent: every hotspot
\* has handled the events of the tick that name it and every tourist holds
\* the modifiers of the tick.
AllEffectsApplied ==
    /\ \A h \in HotspotIds : \A i \in 1..Len(current_scenario.events) :
          LET event == current_scenario.events[i]
          IN (event.step = current_step /\ event.target = hotspots[h].name)
             => TimesHandled(h, event) >= 1
    /\ \A t \in TouristIds :
          tourists[t].scenario_modifiers
             = ClaimedModifiers(tourists[t], current_scenario, current_step)

\* C28: within one step() under a scenario, apply_scenario_effects has run on
\* every hotspot and every tourist before the first agent steps; the agents
\* then step one after the other in the order of their registration, the
\* hotspots (unique ids 1, 2) before the tourists (3, 4), the same in every
\* tick: the k-th step of a tick is the step of the agent with unique id k,
\* it leaves every other hotspot's step state and every other tourist as they
\* are, and the tick ends only after the last agent's step.
C28_EffectsThenHotspotsThenTourists ==
    [][/\ (pc = "scenario" /\ pc' = "step")
             => AllEffectsApplied' /\ agent_idx' = 1
       /\ (pc = "scenario" /\ pc' # "step")
             => pc' = "scenario" /\ agent_idx' = agent_idx + 1
       /\ (pc = "scenario" \/ pc = "collect")
             => \A h \in HotspotIds, t \in TouristIds :
                   /\ hotspots'[h].current_popularity = hotspots[h].current_popularity
                   /\ hotspots'[h].visitors_today = hotspots[h].visitors_today
                   /\ hotspots'[h].total_visitors = hotspots[h].total_visitors
                   /\ tourists'[t].total_visits = tourists[t].total_visits
                   /\ tourists'[t].current_hotspot = tourists[t].current_hotspot
       /\ pc = "step"
             => /\ agent_idx \in HotspotIds
                      => /\ tourists' = tourists
                         /\ \A h \in HotspotIds \ {agent_idx} :
                               hotspots'[h] = hotspots[h]
                         /\ hotspots'[agent_idx].visitors_today = 0
                            \/ pc' = "raised"
                /\ agent_idx \in TouristIds
                      => /\ \A t \in TouristIds \ {agent_idx} :
                               tourists'[t] = tourists[t]
                         /\ \A h \in HotspotIds :
                               /\ hotspots'[h].visitors_today
                                     >= hotspots[h].visitors_today
                               /\ hotspots'[h].current_popularity
                                     >= hotspots[h].current_popularity
                /\ \/ pc' = "step" /\ agent_idx' = agent_idx + 1
                   \/ pc' = "increment" /\ agent_idx = Cardinality(HotspotIds)
                                                       + Cardinality(TouristIds)
                   \/ pc' = "raised"]_vars

\* Under a scenario with events of the tick, a later tick has reached its
\* last agent step: a tourist has visited after the hotspots' steps.
C28_Witness ==
    /\ IsScenario(current_scenario)
    /\ current_step >= 1
    /\ pc = "increment"
    /\ error = "none"
    /\ \E i \in 1..Len(current_scenario.events) :
          /\ current_scenario.events[i].step = current_step
          /\ \E h \in HotspotIds :
                current_scenario.events[i].target = hotspots[h].name
    /\ \E h \in HotspotIds : hotspots[h].visitors_today >= 1


\* C29 (as claimed): the row datacollector.collect appends has Total_Visitors
\* equal to the number of visits recorded so far, summed over the hotspots,
\* and at least the Total_Visitors of the row before it.
C29_TotalVisitorsRowCountsVisits ==
    [][pc = "collect" =>
          LET row == model_vars'[Len(model_vars')]
          IN /\ row.Total_Visitors
                   = SumSeq([h \in 1..Cardinality(HotspotIds) |-> RecordedVisits(h)])
             /\ Len(model_vars) >= 1
                   => row.Total_Visitors
                         >= model_vars[Len(model_vars)].Total_Visitors]_vars


\* The event's target is the name of a hotspot or a persona type.
TargetMatches(event) ==
    \/ \E h \in HotspotIds : event.target = hotspots[h].name
    \/ event.target \in PersonaTypes

\* A scenario without the events whose target matches nothing.
WithoutUnmatched(scenario) ==
    [scenario EXCEPT !.events = SelectSeq(@, TargetMatches)]

\* C30: an event whose target is no hotspot's name and no persona type is
\* never handled.  In every state of a run, apply_scenario_effects under the
\* scenario leaves every hotspot and every tourist exactly as it does under
\* the scenario without such events, logs included, so the run goes through
\* the states of the run without them; no processed-event log holds such an
\* event.
C30_UnmatchedTargetNeverFires ==
    IsScenario(current_scenario) =>
        /\ \A h \in HotspotIds :
              /\ hotspot_apply_scenario_effects(hotspots[h], current_scenario,
                                                current_step)
                    = hotspot_apply_scenario_effects(
                          hotspots[h], WithoutUnmatched(current_scenario),
                          current_step)
              /\ \A i \in 1..Len(hotspots[h].processed_events) :
                    TargetMatches(hotspots[h].processed_events[i])
        /\ \A t \in TouristIds :
              tourist_apply_scenario_effects(tourists[t], current_scenario,
                                             current_step)
                 = tourist_apply_scenario_effects(
                       tourists[t], WithoutUnmatched(current_scenario),
                       current_step)

\* The tick of an event with a target that matches nothing is over, the
\* hotspots have handled another event of that tick, tourists have visited
\* and the run goes on without an error.
C30_Witness ==
    /\ IsScenario(current_scenario)
    /\ error = "none"
    /\ pc = "step"
    /\ \E i \in 1..Len(current_scenario.events) :
          /\ ~TargetMatches(current_scenario.events[i])
          /\ current_scenario.events[i].step < current_step
          /\ \E h \in HotspotIds : \E j \in 1..Len(hotspots[h].processed_events) :
                hotspots[h].processed_events[j].step = current_scenario.events[i].step
    /\ \E t \in TouristIds : tourists[t].total_visits > 0


\* The three visit counters of a tourist agree and stay within daily_visits.
VisitCountersAgree(t) ==
    /\ t.visits_today = t.total_visits
    /\ t.total_visits = Len(t.visited_hotspots)
    /\ t.visits_today <= Persona(t).daily_visits

\* C31: every tourist has visits_today = total_visits = length of
\* visited_hotspots <= daily_visits in every state; no step of the model
\* lowers visits_today, a step adds at most one visit to one tourist, and the
\* step of a tourist that has made daily_visits visits changes neither the
\* tourist (its choice, position, counters, satisfaction) nor any hotspot nor
\* any other tourist.
C31_VisitsNeverResetAndCapped ==
    [][/\ \A t \in TouristIds :
             /\ VisitCountersAgree(tourists[t])
             /\ VisitCountersAgree(tourists'[t])
             /\ tourists'[t].visits_today >= tourists[t].visits_today
             /\ tourists'[t].visits_today <= tourists[t].visits_today + 1
             /\ tourists'[t].visits_today # tourists[t].visits_today
                   => pc = "step" /\ CurrentAgent = t
       /\ \A t \in TouristIds :
             (/\ pc = "step"
              /\ CurrentAgent = t
              /\ tourists[t].visits_today >= Persona(tourists[t]).daily_visits)
             => /\ tourists' = tourists
                /\ hotspots' = hotspots
                /\ error' = error]_vars

\* A tourist that made its daily_visits visits in earlier ticks has had its
\* step in a later tick.
C31_Witness ==
    /\ pc = "increment"
    /\ current_step >= 2
    /\ error = "none"
    /\ \E t \in TouristIds :
          /\ Persona(tourists[t]).daily_visits >= 1
          /\ tourists[t].visits_today = Persona(tourists[t]).daily_visits
          /\ current_step + 1 > tourists[t].visits_today


\* The satisfaction_modifier the external factors of a scenario give alone.
FactorsAlone(scenario) ==
    Get(scenario.external_factors, "event_excitement", 0)
    + Get(scenario.external_factors, "inconvenience_tolerance", 0)

\* C32: once the scenario effects of a tick are applied, a tourist whose
\* persona a satisfaction_penalty event of that tick targets holds the
\* factors' value less the penalty; in every later tick without such an event
\* for its persona it holds the value of the external factors alone again.
C32_PenaltyOnlyInItsTick ==
    (pc \in {"step", "increment"} /\ IsScenario(current_scenario)) =>
        \A t \in TouristIds :
            LET penalty == PersonaEventSum(current_scenario, current_step,
                                           tourists[t].persona_type,
                                           "satisfaction_penalty", "penalty")
            IN tourists[t].scenario_modifiers.satisfaction_modifier
                  = IF \E i \in 1..Len(current_scenario.events) :
                          /\ current_scenario.events[i].type = "satisfaction_penalty"
                          /\ current_scenario.events[i].target = tourists[t].persona_type
                          /\ current_scenario.events[i].step = current_step
                    THEN FactorsAlone(current_scenario) - penalty
                    ELSE FactorsAlone(current_scenario)

\* A tick after the tick of a satisfaction_penalty event: a tourist of the
\* targeted persona holds the value of the external factors alone, which is
\* not the value it held with the penalty.
C32_Witness ==
    /\ pc = "step"
    /\ IsScenario(current_scenario)
    /\ \E t \in TouristIds : \E i \in 1..Len(current_scenario.events) :
          LET event == current_scenario.events[i]
          IN /\ event.type = "satisfaction_penalty"
             /\ event.target = tourists[t].persona_type
             /\ event.step < current_step
             /\ Get(event.parameters, "penalty", 0) > 0
             /\ tourists[t].scenario_modifiers.satisfaction_modifier
                   = FactorsAlone(current_scenario)


\* Every entry of the hotspot's appeal table is a plain number.
PlainAppealTable(h) ==
    \A p \in DOMAIN hotspots[h].appeal_to_personas :
        ~hotspots[h].appeal_to_personas[p].is_dict

\* C33: for a hotspot with plain-number appeal entries whose category an
\* active luxury_tax names, once the scenario has been applied every persona's
\* appeal is max(0, creation-time appeal - tax_rate * 0.5), whatever
\* appeal_boost, appeal_reduction and appeal_reset events the hotspot has
\* handled in this tick or before.
C33_TaxOverridesAppealEvents ==
    \A h \in HotspotIds :
        (Taxed(h) /\ ScenarioApplied(h) /\ PlainAppealTable(h)) =>
            \A p \in DOMAIN hotspots[h].appeal_to_personas :
                get_persona_appeal(hotspots[h], p) =
                    Max(0, CreationAppeal(h, p)
                           - Mul(current_scenario.regulations["luxury_tax"].tax_rate,
                                 TaxToAppeal))

\* A taxed hotspot with plain entries has handled an appeal_boost, an
\* appeal_reduction and an appeal_reset and shows the taxed creation appeal.
C33_Witness ==
    \E h \in HotspotIds :
        /\ Taxed(h) /\ ScenarioApplied(h) /\ PlainAppealTable(h)
        /\ \A type \in AppealEventTypes :
              \E i \in 1..Len(hotspots[h].processed_events) :
                 hotspots[h].processed_events[i].type = type
        /\ \E p \in DOMAIN hotspots[h].appeal_to_personas :
              /\ get_persona_appeal(hotspots[h], p) < CreationAppeal(h, p)
              /\ get_persona_appeal(hotspots[h], p) > 0


\* C34: when a tourist below its daily_visits steps while every hotspot's
\* clamped score is 0, choose_hotspot leaves current_hotspot as it is.  A
\* tourist that has never chosen a hotspot then does nothing: the tourist and
\* every hotspot are unchanged and no error is raised.  A tourist that chose a
\* hotspot in an earlier tick stays where it is and visits that hotspot again:
\* the hotspot is appended to visited_hotspots, the tourist's and the
\* hotspot's counters grow by one and no other hotspot's counters change.
C34_ZeroScoresKeepCurrentHotspot ==
    [][\A tid \in TouristIds :
          (/\ pc = "step"
           /\ CurrentAgent = tid
           /\ tourists[tid].visits_today < Persona(tourists[tid]).daily_visits
           /\ Choosable(tourists[tid], hotspots) = {})
          => LET t == tourists[tid]
                 h == t.current_hotspot
             IN /\ tourists'[tid].current_hotspot = h
                /\ tourists'[tid].pos = t.pos
                /\ \A n \in TouristIds \ {tid} : tourists'[n] = tourists[n]
                /\ IF h = 0
                   THEN /\ tourists' = tourists
                        /\ hotspots' = hotspots
                        /\ error' = error
                        /\ pc' # "raised"
                   ELSE /\ tourists'[tid].visited_hotspots
                              = Append(t.visited_hotspots, h)
                        /\ tourists'[tid].visits_today = t.visits_today + 1
                        /\ tourists'[tid].total_visits = t.total_visits + 1
                        /\ hotspots'[h].visitors_today
                              = hotspots[h].visitors_today + 1
                        /\ hotspots'[h].total_visitors
                              = hotspots[h].total_visitors + 1
                        /\ \A g \in HotspotIds \ {h} : hotspots'[g] = hotspots[g]]_vars

\* A tourist has visited the same hotspot in two ticks, the second time
\* without a draw: every score is 0 where it stands.
C34_Witness ==
    \E tid \in TouristIds :
        /\ pc \in {"step", "increment"}
        /\ agent_idx > tid \/ pc = "increment"
        /\ current_step >= 1
        /\ Len(tourists[tid].visited_hotspots) = 2
        /\ tourists[tid].visited_hotspots[1] = tourists[tid].visited_hotspots[2]
        /\ tourists[tid].current_hotspot = tourists[tid].visited_hotspots[2]
        /\ Choosable(tourists[tid], hotspots) = {}
        /\ hotspots[tourists[tid].current_hotspot].visitors_today >= 1

AccessibilityEventTypes == {"accessibility_reduction", "construction_complete"}

NotAccessibilityEvent(event) == event.type \notin AccessibilityEventTypes

NotAccessibilityType(type) == type \notin AccessibilityEventTypes

\* The scenario of the second run: the same without its accessibility events.
WithoutAccessibility(scenario) ==
    [scenario EXCEPT !.events = SelectSeq(@, NotAccessibilityEvent)]

\* The hotspot as the run without accessibility events has it: the
\* accessibility_modifier of creation and logs without those events.
InOtherRun(hs) ==
    [hs EXCEPT !.accessibility_modifier = SCALE,
               !.processed_events = SelectSeq(@, NotAccessibilityEvent),
               !.active_events = SelectSeq(@, NotAccessibilityType)]

====
